---- MODULE Spec2Model ----
(***************************************************************************)
(* Model of quickumls/install.py: the one-shot build of the QuickUMLS      *)
(* lookup stores from MRSTY.RRF (semantic types) and MRCONSO.RRF           *)
(* (vocabulary).                                                           *)
(*                                                                         *)
(* A file is a sequence of lines; a line is the sequence of its fields,    *)
(* i.e. the value of  ln.strip().split('|')  (never empty: splitting the   *)
(* empty string gives one empty field).  The surface string field 'str'    *)
(* is a sequence of characters so that strip(), lower() and unidecode()    *)
(* are computed character by character (a non-ASCII character is written   *)
(* by its code point, "U+00C9"); every other field is a string.            *)
(* Wall-clock values printed in the status lines are left out.             *)
(***************************************************************************)
EXTENDS Integers, Sequences, FiniteSets, TLC

\* Longest MRSTY.RRF and MRCONSO.RRF files explored.
MaxStyLines == 2
MaxRows == 2
\* Period of the progress line: 100000 at install.py:68, scaled to the files
\* explored here.
StatusEvery == 2

VARIABLES
    opts,             \* parsed command line: language, lowercase, normalize_unicode, save_preferred_terms
    mrsty,            \* MRSTY.RRF
    mrconso,          \* MRCONSO.RRF
    pc,               \* position of the run
    styPos,           \* lines of MRSTY.RRF consumed by get_semantic_types
    sem_types,        \* cui -> sequence of semantic types
    conPos,           \* lines of MRCONSO.RRF consumed by get_mrconso_iterator
    total,            \* countlines(mrconso_path)
    i,                \* extract_from_mrconso's counter
    content,          \* the row get_mrconso_iterator yielded last
    record,           \* the tuple extract_from_mrconso yielded last
    yielded,          \* history: every tuple extract_from_mrconso has yielded
    simstring_terms,  \* parse_and_encode_ngrams' set of inserted terms
    ss_db,            \* calls of SimstringDBWriter.insert, in order
    cuisty_db,        \* calls of CuiSemTypesDB.insert, in order
    cuipt_db,         \* calls of CuiPreferredTermDB.insert, in order
    stdout,           \* progress and summary lines printed
    error             \* the exception that ended the run, if any

vars == <<opts, mrsty, mrconso, pc, styPos, sem_types, conPos, total, i, content,
          record, yielded, simstring_terms, ss_db, cuisty_db, cuipt_db, stdout, error>>

-----------------------------------------------------------------------------
(* Schemas and parsing *)

HEADERS_MRCONSO ==
    <<"cui", "lat", "ts", "lui", "stt", "sui", "ispref", "aui", "saui", "scui",
      "sdui", "sab", "tty", "code", "str", "srl", "suppress", "cvf">>

HEADERS_MRSTY == <<"cui", "sty", "hier", "desc", "sid", "num">>

LANGUAGES == {"ENG", "SPA"}

Min(a, b) == IF a <= b THEN a ELSE b

Pos(headers, name) == CHOOSE k \in 1..Len(headers) : headers[k] = name

\* dict(zip(headers, fields)): the shorter of the two decides the keys.  The
\* mutant pads a short line with empty fields.
ParsePadded(headers, fields) ==
    [h \in {headers[k] : k \in 1..Len(headers)} |->
        IF Pos(headers, h) <= Len(fields) THEN fields[Pos(headers, h)]
        ELSE IF h = "str" THEN <<>> ELSE ""]

Parse(headers, fields) ==
    [h \in {headers[k] : k \in 1..Min(Len(headers), Len(fields))} |->
        fields[Pos(headers, h)]]

-----------------------------------------------------------------------------
(* String transforms of the surface text *)

IsSpace(c) == c \in {" ", "\t", "\n"}

RECURSIVE lstrip(_)
lstrip(s) == IF s # <<>> /\ IsSpace(Head(s)) THEN lstrip(Tail(s)) ELSE s

RECURSIVE rstrip(_)
rstrip(s) ==
    IF s # <<>> /\ IsSpace(s[Len(s)]) THEN rstrip(SubSeq(s, 1, Len(s) - 1)) ELSE s

strip(s) == rstrip(lstrip(s))

lowerChar(c) ==
    CASE c = "A" -> "a"
      [] c = "E" -> "e"
      [] c = "U+00C9" -> "U+00E9"
      [] OTHER -> c

lower(s) == [k \in 1..Len(s) |-> lowerChar(s[k])]

unidecodeChar(c) ==
    CASE c = "U+00C9" -> "E"
      [] c = "U+00E9" -> "e"
      [] OTHER -> c

unidecode(s) == [k \in 1..Len(s) |-> unidecodeChar(s[k])]

\* install.py:76, 82-86
ConceptText(o, str) ==
    LET stripped == strip(str)
        folded == IF o.lowercase THEN lower(stripped) ELSE stripped
    IN  IF o.normalize_unicode THEN unidecode(folded) ELSE folded

-----------------------------------------------------------------------------
(* Input files explored *)

Row(cui, lat, ispref, sab, tty, str) ==
    <<cui, lat, "", "", "", "", ispref, "", "", "", "", sab, tty, "", str, "0", "N", "">>

Short(line, n) == SubSeq(line, 1, n)

VocabLines ==
    { Short(Row("C1", "ENG", "Y", "MTH", "PN", <<"A">>), 15),
      Row("C1", "ENG", "Y", "MTH", "PN", <<"a", " ">>),
      Row("C1", "ENG", "N", "MTH", "PN", <<"A">>),
      Row("C2", "ENG", "Y", "SRC", "PN", <<"U+00C9">>),
      Row("C2", "SPA", "Y", "MTH", "SY", <<"A">>),
      Short(Row("C1", "SPA", "Y", "MTH", "PN", <<"A">>), 2),
      Short(Row("C1", "ENG", "Y", "MTH", "PN", <<"A">>), 1) }

StyLine(cui, sty) == <<cui, sty, "A1", "desc", "AT1", "256">>

StyLines ==
    { StyLine("C1", "T1"),
      Short(StyLine("C1", "T2"), 2),
      StyLine("C2", "T1"),
      Short(StyLine("C1", "T1"), 1) }

SeqsUpTo(S, n) == UNION {[1..k -> S] : k \in 0..n}

Options ==
    [language : LANGUAGES, lowercase : BOOLEAN, normalize_unicode : BOOLEAN,
     save_preferred_terms : BOOLEAN]

NoError == [exc |-> "", key |-> "", line |-> 0]
NoContent == [h \in {} |-> ""]
NoRecord == [term |-> <<>>, cui |-> "", stys |-> <<>>, sab |-> "", tty |-> "",
             preferred |-> 0]

-----------------------------------------------------------------------------
(* State after main() has parsed the options and created the generator and *)
(* parse_and_encode_ngrams has opened the stores: nothing has been read.   *)

Init ==
    /\ opts \in Options
    /\ mrsty \in SeqsUpTo(StyLines, MaxStyLines)
    /\ mrconso \in SeqsUpTo(VocabLines, MaxRows)
    /\ pc = "load"
    /\ styPos = 0
    /\ sem_types = [c \in {} |-> <<>>]
    /\ conPos = 0
    /\ total = 0
    /\ i = 0
    /\ content = NoContent
    /\ record = NoRecord
    /\ yielded = <<>>
    /\ simstring_terms = {}
    /\ ss_db = <<>>
    /\ cuisty_db = <<>>
    /\ cuipt_db = <<>>
    /\ stdout = <<[kind |-> "loading", i |-> 0]>>
    /\ error = NoError

\* An uncaught exception ends the process.
Raise(exc, key, line) ==
    /\ pc' = "aborted"
    /\ error' = [exc |-> exc, key |-> key, line |-> line]

-----------------------------------------------------------------------------
(* get_semantic_types: one iteration of the loop over MRSTY.RRF *)

\* sem_types.setdefault(cui, []).append(sty), with the mutant that drops a
\* code already listed.
SetDefaultAppendUnique(st, cui, sty) ==
    IF cui \in DOMAIN st
    THEN IF \E k \in 1..Len(st[cui]) : st[cui][k] = sty
         THEN st
         ELSE [st EXCEPT ![cui] = Append(@, sty)]
    ELSE [c \in DOMAIN st \cup {cui} |-> IF c = cui THEN <<sty>> ELSE st[c]]

SetDefaultAppend(st, cui, sty) ==
    IF cui \in DOMAIN st
    THEN [st EXCEPT ![cui] = Append(@, sty)]
    ELSE [c \in DOMAIN st \cup {cui} |-> IF c = cui THEN <<sty>> ELSE st[c]]

get_semantic_types ==
    /\ pc = "load"
    /\ styPos < Len(mrsty)
    /\ styPos' = styPos + 1
    /\ LET line == Parse(HEADERS_MRSTY, mrsty[styPos + 1])
       IN  IF "sty" \notin DOMAIN line
           THEN \* setdefault has run when content['sty'] raises
                /\ Raise("KeyError", "sty", 29)
                /\ sem_types' = IF line["cui"] \in DOMAIN sem_types THEN sem_types
                                ELSE [c \in DOMAIN sem_types \cup {line["cui"]} |->
                                         IF c = line["cui"] THEN <<>> ELSE sem_types[c]]
           ELSE /\ sem_types' = SetDefaultAppend(sem_types, line["cui"], line["sty"])
                /\ UNCHANGED <<pc, error>>
    /\ UNCHANGED <<opts, mrsty, mrconso, conPos, total, i, content, record, yielded,
                   simstring_terms, ss_db, cuisty_db, cuipt_db, stdout>>

-----------------------------------------------------------------------------
(* extract_from_mrconso, lines 53-63: the map is loaded, count the lines *)

countlines(file) == Len(file)

extract_from_mrconso_begin ==
    /\ pc = "load"
    /\ styPos = Len(mrsty)
    /\ stdout' = Append(stdout, [kind |-> "done", i |-> 0])
    /\ total' = countlines(mrconso)
    /\ i' = 0
    /\ pc' = "iter"
    /\ UNCHANGED <<opts, mrsty, mrconso, styPos, sem_types, conPos, content, record,
                   yielded, simstring_terms, ss_db, cuisty_db, cuipt_db, error>>

-----------------------------------------------------------------------------
(* get_mrconso_iterator: one iteration of the loop over MRCONSO.RRF *)

AnyLanguage(row, lang) == TRUE

LanguageMatches(row, lang) == row["lat"] = lang

get_mrconso_iterator ==
    /\ pc = "iter"
    /\ conPos < Len(mrconso)
    /\ conPos' = conPos + 1
    /\ LET row == Parse(HEADERS_MRCONSO, mrconso[conPos + 1])
       IN  IF "lat" \notin DOMAIN row
           THEN /\ Raise("KeyError", "lat", 39)
                /\ UNCHANGED content
           ELSE IF ~LanguageMatches(row, opts.language)
           THEN UNCHANGED <<pc, error, content>>
           ELSE /\ content' = row
                /\ pc' = "extract"
                /\ UNCHANGED error
    /\ UNCHANGED <<opts, mrsty, mrconso, styPos, sem_types, total, i, record, yielded,
                   simstring_terms, ss_db, cuisty_db, cuipt_db, stdout>>

-----------------------------------------------------------------------------
(* extract_from_mrconso: the loop body, lines 66-88 *)

\* The fields are read in the order of lines 76-80; reading an absent one
\* raises KeyError.
FieldReads == <<"str", "cui", "sab", "tty", "ispref">>

MissingReads(row) == {k \in 1..Len(FieldReads) : FieldReads[k] \notin DOMAIN row}

FirstMissing(row) == CHOOSE k \in MissingReads(row) : \A j \in MissingReads(row) : k <= j

\* sem_types[cui] at line 88, and the mutant sem_types.get(cui, []).
JoinOrEmpty(st, cui) ==
    [ok |-> TRUE, stys |-> IF cui \in DOMAIN st THEN st[cui] ELSE <<>>]

Join(st, cui) ==
    IF cui \in DOMAIN st
    THEN [ok |-> TRUE, stys |-> st[cui]]
    ELSE [ok |-> FALSE, stys |-> <<>>]

\* The KeyError of line 88 is raised before the yield: the builder never
\* sees the row.  The mutant joins after the similarity insert.
AbortAfterSimstringInsert(term, cui) ==
    /\ Raise("KeyError", cui, 88)
    /\ ss_db' = IF term \notin simstring_terms THEN Append(ss_db, term) ELSE ss_db
    /\ simstring_terms' = simstring_terms \cup {term}
    /\ UNCHANGED <<record, yielded, cuisty_db, cuipt_db>>

AbortOnMissingCui(term, cui) ==
    /\ Raise("KeyError", cui, 88)
    /\ UNCHANGED <<record, yielded, simstring_terms, ss_db, cuisty_db, cuipt_db>>

extract_from_mrconso ==
    /\ pc = "extract"
    /\ i' = i + 1
    /\ stdout' = IF (i + 1) % StatusEvery = 0
                 THEN Append(stdout, [kind |-> "status", i |-> i + 1])
                 ELSE stdout
    /\ IF MissingReads(content) # {}
       THEN /\ Raise("KeyError", FieldReads[FirstMissing(content)],
                     75 + FirstMissing(content))
            /\ UNCHANGED <<record, yielded, simstring_terms, ss_db, cuisty_db, cuipt_db>>
       ELSE LET concept_text == ConceptText(opts, content["str"])
                cui == content["cui"]
                preferred == IF content["ispref"] = "Y" THEN 1 ELSE 0
                joined == Join(sem_types, cui)
            IN  IF ~joined.ok
                THEN AbortOnMissingCui(concept_text, cui)
                ELSE /\ record' = [term |-> concept_text, cui |-> cui,
                                   stys |-> joined.stys, sab |-> content["sab"],
                                   tty |-> content["tty"], preferred |-> preferred]
                     /\ yielded' = Append(yielded, record')
                     /\ pc' = "dispatch"
                     /\ UNCHANGED <<error, simstring_terms, ss_db, cuisty_db, cuipt_db>>
    /\ UNCHANGED <<opts, mrsty, mrconso, styPos, sem_types, conPos, total, content>>

-----------------------------------------------------------------------------
(* parse_and_encode_ngrams: the loop body, lines 114-121 *)

AlwaysUnseen(term, terms) == TRUE

Unseen(term, terms) == term \notin terms

QualifiesAnySource(rec) == rec.preferred = 1 /\ rec.tty = "PN"

Qualifies(rec) == rec.preferred = 1 /\ rec.sab = "MTH" /\ rec.tty = "PN"

\* cuipt_dir is not None (lines 209-212)
PreferredTermsEnabled == opts.save_preferred_terms

CuistyEntry(rec) ==
    [term |-> rec.term, cui |-> rec.cui, stys |-> rec.stys, preferred |-> rec.preferred]

CuiptEntry(rec) == [cui |-> rec.cui, term |-> rec.term]

\* The mutant makes the semantic-type insert under the dedup test.
parse_and_encode_ngrams_nested ==
    /\ pc = "dispatch"
    /\ IF Unseen(record.term, simstring_terms)
       THEN /\ ss_db' = Append(ss_db, record.term)
            /\ simstring_terms' = simstring_terms \cup {record.term}
            /\ cuisty_db' = Append(cuisty_db, CuistyEntry(record))
       ELSE UNCHANGED <<ss_db, simstring_terms, cuisty_db>>
    /\ cuipt_db' = IF PreferredTermsEnabled /\ Qualifies(record)
                   THEN Append(cuipt_db, CuiptEntry(record))
                   ELSE cuipt_db
    /\ pc' = "iter"
    /\ UNCHANGED <<opts, mrsty, mrconso, styPos, sem_types, conPos, total, i, content,
                   record, yielded, stdout, error>>

parse_and_encode_ngrams ==
    /\ pc = "dispatch"
    /\ IF Unseen(record.term, simstring_terms)
       THEN /\ ss_db' = Append(ss_db, record.term)
            /\ simstring_terms' = simstring_terms \cup {record.term}
       ELSE UNCHANGED <<ss_db, simstring_terms>>
    /\ cuisty_db' = Append(cuisty_db, CuistyEntry(record))
    /\ cuipt_db' = IF PreferredTermsEnabled /\ Qualifies(record)
                   THEN Append(cuipt_db, CuiptEntry(record))
                   ELSE cuipt_db
    /\ pc' = "iter"
    /\ UNCHANGED <<opts, mrsty, mrconso, styPos, sem_types, conPos, total, i, content,
                   record, yielded, stdout, error>>

-----------------------------------------------------------------------------
(* extract_from_mrconso, lines 90-95: the file is exhausted *)

extract_from_mrconso_end ==
    /\ pc = "iter"
    /\ conPos = Len(mrconso)
    /\ IF total = 0
       THEN /\ Raise("ZeroDivisionError", "", 93)
            /\ UNCHANGED stdout
       ELSE /\ stdout' = Append(stdout, [kind |-> "completed", i |-> i])
            /\ pc' = "done"
            /\ UNCHANGED error
    /\ UNCHANGED <<opts, mrsty, mrconso, styPos, sem_types, conPos, total, i, content,
                   record, yielded, simstring_terms, ss_db, cuisty_db, cuipt_db>>

-----------------------------------------------------------------------------

Next ==
    \/ get_semantic_types
    \/ extract_from_mrconso_begin
    \/ get_mrconso_iterator
    \/ extract_from_mrconso
    \/ parse_and_encode_ngrams
    \/ extract_from_mrconso_end

Spec == Init /\ [][Next]_vars

-----------------------------------------------------------------------------
(* What the input files say, read column by column, for the properties *)

Column(headers, line, name) == line[Pos(headers, name)]

HasColumn(headers, line, name) == Pos(headers, name) <= Len(line)

\* The elements of seq at the positions in keep, in order, from position k on.
RECURSIVE KeepAt(_, _, _)
KeepAt(seq, keep, k) ==
    IF k > Len(seq) THEN <<>>
    ELSE (IF k \in keep THEN <<seq[k]>> ELSE <<>>) \o KeepAt(seq, keep, k + 1)

\* The 'sty' values of the MRSTY.RRF lines of one identifier, in file order.
StyOfFile(cui) ==
    LET mine == {k \in 1..Len(mrsty) : mrsty[k][1] = cui}
        lines == KeepAt(mrsty, mine, 1)
    IN  [k \in 1..Len(lines) |-> Column(HEADERS_MRSTY, lines[k], "sty")]

RowMatches(k) ==
    /\ HasColumn(HEADERS_MRCONSO, mrconso[k], "lat")
    /\ Column(HEADERS_MRCONSO, mrconso[k], "lat") = opts.language

RowCui(k) == Column(HEADERS_MRCONSO, mrconso[k], "cui")

RowTerm(k) == ConceptText(opts, Column(HEADERS_MRCONSO, mrconso[k], "str"))

RowQualifies(k) ==
    /\ RowMatches(k)
    /\ HasColumn(HEADERS_MRCONSO, mrconso[k], "str")
    /\ Column(HEADERS_MRCONSO, mrconso[k], "ispref") = "Y"
    /\ Column(HEADERS_MRCONSO, mrconso[k], "sab") = "MTH"
    /\ Column(HEADERS_MRCONSO, mrconso[k], "tty") = "PN"

\* The exception came from reading a field of a row (lines 39, 76-80), from
\* the join of a row (line 88), from either.
FieldErrorLines == {39} \cup (76..80)
RowErrorLines == FieldErrorLines \cup {88}

\* Rows of MRCONSO.RRF whose handling has ended: skipped, or dispatched to
\* the stores.  The row in flight, and the row of an abort, are not.
RowsDone ==
    IF pc \in {"extract", "dispatch"} \/ (pc = "aborted" /\ error.line \in RowErrorLines)
    THEN conPos - 1
    ELSE conPos

\* The term records the builder has dispatched.
Dispatched ==
    IF pc = "dispatch" THEN SubSeq(yielded, 1, Len(yielded) - 1) ELSE yielded

Terms(recs) == [k \in 1..Len(recs) |-> recs[k].term]

FirstOccurrences(seq) ==
    KeepAt(seq, {k \in 1..Len(seq) : \A j \in 1..(k - 1) : seq[j] # seq[k]}, 1)

\* The store inserts the first n rows of MRCONSO.RRF call for.
ExpectedCuisty(n) ==
    LET rows == KeepAt([k \in 1..n |-> k], {k \in 1..n : RowMatches(k)}, 1)
    IN  [j \in 1..Len(rows) |->
            [term |-> RowTerm(rows[j]), cui |-> RowCui(rows[j]),
             stys |-> StyOfFile(RowCui(rows[j])),
             preferred |-> IF Column(HEADERS_MRCONSO, mrconso[rows[j]], "ispref") = "Y"
                           THEN 1 ELSE 0]]

ExpectedCuipt(n) ==
    LET rows == KeepAt([k \in 1..n |-> k], {k \in 1..n : RowQualifies(k)}, 1)
    IN  IF opts.save_preferred_terms
        THEN [j \in 1..Len(rows) |-> [cui |-> RowCui(rows[j]), term |-> RowTerm(rows[j])]]
        ELSE <<>>

\* CuiPreferredTermDB as a map: a later insert under an identifier replaces
\* the earlier one.
CuiPreferredTermDB(log) ==
    [c \in {log[k].cui : k \in 1..Len(log)} |->
        LET last == CHOOSE k \in 1..Len(log) :
                        /\ log[k].cui = c
                        /\ \A j \in 1..Len(log) : log[j].cui = c => j <= k
        IN  log[last].term]

NumStatus == Cardinality({k \in 1..Len(stdout) : stdout[k].kind = "status"})

-----------------------------------------------------------------------------
(* Properties *)

\* C1: the similarity index receives exactly one insert per distinct surface
\* text of the term records dispatched, in the order of first occurrence.
C1_DedupFirstOccurrence == ss_db = FirstOccurrences(Terms(Dispatched))

C1_Witness ==
    /\ pc = "done"
    /\ Len(yielded) = 2
    /\ yielded[1].term = yielded[2].term
    /\ Len(ss_db) = 1

\* C2: the semantic-type store receives one insert per term record, in stream
\* order, whether or not the text was seen before and whether or not the
\* preferred-term store is enabled; after a complete run there are as many
\* inserts as language-matching rows.
C2_OneCuistyInsertPerRecord ==
    /\ cuisty_db = [k \in 1..Len(Dispatched) |->
                       [term |-> Dispatched[k].term, cui |-> Dispatched[k].cui,
                        stys |-> Dispatched[k].stys,
                        preferred |-> Dispatched[k].preferred]]
    /\ pc = "done" =>
          Len(cuisty_db) = Cardinality({k \in 1..Len(mrconso) : RowMatches(k)})

C2_Witness ==
    /\ pc = "done"
    /\ ~opts.save_preferred_terms
    /\ Len(cuisty_db) = 2
    /\ cuisty_db[1].term = cuisty_db[2].term
    /\ Len(ss_db) = 1

\* C3: the preferred-term store receives (cui -> term) for exactly the rows
\* handled so far that match the language and have ispref = 'Y', sab = 'MTH'
\* and tty = 'PN', and only when the store is enabled, in stream order; after
\* a complete run each identifier maps to the term of its last such row.
C3_PreferredTermPredicate ==
    /\ cuipt_db = ExpectedCuipt(RowsDone)
    /\ pc = "done" =>
          \A c \in DOMAIN CuiPreferredTermDB(cuipt_db) :
              \E k \in 1..Len(mrconso) :
                  /\ RowQualifies(k) /\ RowCui(k) = c
                  /\ \A j \in (k + 1)..Len(mrconso) : ~(RowQualifies(j) /\ RowCui(j) = c)
                  /\ CuiPreferredTermDB(cuipt_db)[c] = RowTerm(k)

C3_Witness ==
    /\ pc = "done"
    /\ Len(cuisty_db) = 2
    /\ Len(cuipt_db) = 2
    /\ cuipt_db[1].cui = cuipt_db[2].cui
    /\ cuipt_db[1].term # cuipt_db[2].term
    /\ CuiPreferredTermDB(cuipt_db)[cuipt_db[1].cui] = cuipt_db[2].term

\* C4: every insert into any of the three stores is made for the row read
\* last, and that row's 'lat' equals the configured language; the entry
\* carries that row's identifier and text.
C4_LanguageFilter ==
    [][(ss_db' # ss_db \/ cuisty_db' # cuisty_db \/ cuipt_db' # cuipt_db) =>
          /\ conPos >= 1
          /\ RowMatches(conPos)
          /\ cuisty_db' # cuisty_db
          /\ cuisty_db'[Len(cuisty_db')].cui = RowCui(conPos)
          /\ cuisty_db'[Len(cuisty_db')].term = RowTerm(conPos)]_vars

C4_Witness ==
    /\ pc = "done"
    /\ Len(mrconso) = 2
    /\ HasColumn(HEADERS_MRCONSO, mrconso[1], "lat")
    /\ ~RowMatches(1)
    /\ RowMatches(2)
    /\ Len(cuisty_db) = 1
    /\ Len(ss_db) = 1

\* C5: the semantic types of every semantic-type store entry are the 'sty'
\* values of the MRSTY.RRF lines of the entry's identifier, in file order,
\* repeated codes kept.
C5_SemanticTypesAsInFile ==
    \A k \in 1..Len(cuisty_db) : cuisty_db[k].stys = StyOfFile(cuisty_db[k].cui)

C5_Witness ==
    /\ Len(cuisty_db) = 2
    /\ cuisty_db[1].cui = cuisty_db[2].cui
    /\ Len(cuisty_db[1].stys) = 2
    /\ cuisty_db[1].stys[1] = cuisty_db[1].stys[2]

\* A row has been read and its handling is over (it is not the row in flight
\* between get_mrconso_iterator and extract_from_mrconso).
RowSettled(k) == k \in 1..conPos /\ ~(k = conPos /\ pc = "extract")

AbortedAtRow(k) == pc = "aborted" /\ error.line \in RowErrorLines /\ conPos = k

\* C6, as claimed: a row of any language whose identifier is absent from the
\* Semantic-Type Map aborts the run at that row; no later row is read and
\* the run does not complete.
C6_AbsentCuiAbortsAnyLanguage ==
    \A k \in 1..Len(mrconso) :
        (RowSettled(k) /\ RowCui(k) \notin DOMAIN sem_types) => AbortedAtRow(k)

\* C6, amended: a row whose language code equals the configured language and
\* whose identifier is absent from the Semantic-Type Map aborts the run at
\* that row; no later row is read and the run does not complete.
C6_AbsentCuiAbortsMatchingRow ==
    \A k \in 1..Len(mrconso) :
        (RowSettled(k) /\ RowMatches(k) /\ RowCui(k) \notin DOMAIN sem_types)
            => AbortedAtRow(k)

C6_Witness ==
    /\ pc = "aborted"
    /\ conPos = 1
    /\ Len(mrconso) = 2
    /\ error = [exc |-> "KeyError", key |-> RowCui(1), line |-> 88]
    /\ RowMatches(2)

\* C7: when the run aborts at a language-matching row because its identifier
\* is absent from the Semantic-Type Map, the three stores hold exactly the
\* inserts of the rows before it, and nothing for that row.
C7_StoresOnAbort ==
    (pc = "aborted" /\ error.line = 88) =>
        /\ RowMatches(conPos)
        /\ RowCui(conPos) \notin DOMAIN sem_types
        /\ cuisty_db = ExpectedCuisty(conPos - 1)
        /\ ss_db = FirstOccurrences(Terms(ExpectedCuisty(conPos - 1)))
        /\ cuipt_db = ExpectedCuipt(conPos - 1)

C7_Witness ==
    /\ pc = "aborted"
    /\ error.line = 88
    /\ conPos = 2
    /\ Len(ss_db) = 1
    /\ Len(cuisty_db) = 1
    /\ Len(cuipt_db) = 1
    /\ RowTerm(2) # RowTerm(1)

\* The fields the code reads from a line, and whether a line has them all.
StyLineComplete(k) ==
    \A f \in {"cui", "sty"} : HasColumn(HEADERS_MRSTY, mrsty[k], f)

RowComplete(k) ==
    /\ HasColumn(HEADERS_MRCONSO, mrconso[k], "lat")
    /\ RowMatches(k) =>
          \A f \in {"str", "cui", "sab", "tty", "ispref"} :
              HasColumn(HEADERS_MRCONSO, mrconso[k], f)

AbortedAtStyLine(k) == pc = "aborted" /\ error.line = 29 /\ styPos = k

AbortedForFieldAtRow(k) == pc = "aborted" /\ error.line \in FieldErrorLines /\ conPos = k

\* C8, as claimed: no line shorter than the schema, in either file, makes
\* the run abort because of its missing fields.
C8_ShortLinesTolerated ==
    /\ \A k \in 1..styPos :
          Len(mrsty[k]) < Len(HEADERS_MRSTY) => ~AbortedAtStyLine(k)
    /\ \A k \in 1..Len(mrconso) :
          (RowSettled(k) /\ Len(mrconso[k]) < Len(HEADERS_MRCONSO))
              => ~AbortedForFieldAtRow(k)

\* C8, amended: a line shorter than the schema is tolerated exactly when it
\* still has every field the code reads from it ('cui' and 'sty' in the
\* semantic-type loader; 'lat' in the extractor and, for a row of the
\* configured language, 'str', 'cui', 'sab', 'tty' and 'ispref'); a line
\* that lacks one of them aborts the run with a KeyError.
C8_ShortLinesToleratedIfComplete ==
    /\ \A k \in 1..styPos : AbortedAtStyLine(k) <=> ~StyLineComplete(k)
    /\ \A k \in 1..Len(mrconso) :
          RowSettled(k) => (AbortedForFieldAtRow(k) <=> ~RowComplete(k))

C8_Witness ==
    /\ pc = "done"
    /\ Len(mrsty) = 2
    /\ Len(mrsty[1]) < Len(HEADERS_MRSTY)
    /\ Len(mrconso) = 2
    /\ Len(mrconso[1]) < Len(HEADERS_MRCONSO)
    /\ Len(mrconso[2]) < Len(HEADERS_MRCONSO)
    /\ RowMatches(1)
    /\ ~RowMatches(2)
    /\ HasColumn(HEADERS_MRCONSO, mrconso[2], "lat")
    /\ Len(cuisty_db) = 1
    /\ cuisty_db[1].stys = <<Column(HEADERS_MRSTY, mrsty[1], "sty")>>

\* C9: whenever the iteration finds the vocabulary file exhausted, the empty
\* file included, the summary line is emitted and the run completes without
\* error.
C9_SummaryOnExhaustion ==
    [][(pc = "iter" /\ conPos = Len(mrconso)) =>
          /\ pc' = "done"
          /\ error' = NoError
          /\ stdout'[Len(stdout')].kind = "completed"]_vars

\* C10: between rows, one status line has been emitted for every full
\* StatusEvery rows consumed from the vocabulary file, rows skipped by the
\* language filter included.
C10_StatusPerRowsConsumed ==
    pc \in {"iter", "done"} => NumStatus = conPos \div StatusEvery

====
